---- MODULE Spec2Model ----
(***************************************************************************)
(* Style hooks of the block editor: cascading resolution of a block's      *)
(* global styles (withBlockControls), compilation of style values to CSS   *)
(* variables (compileStyleValue, getInlineStyles) and the save/edit props  *)
(* filters (addSaveProps, addEditProps).                                   *)
(*                                                                         *)
(* JavaScript objects live in a heap of mutable objects, so that lodash    *)
(* merge, which writes into its first argument, is modelled with the       *)
(* aliasing it really has.                                                 *)
(***************************************************************************)
EXTENDS Integers, Sequences, FiniteSets, TLC

VARIABLES
    heap,                       \* address -> object (key -> Leaf(string) | undefinedValue | Ref(address))
    experimentalGlobalStyles,   \* getSettings().__experimentalGlobalStyles, in key order
    blockStyles,                \* the attributes.style objects of the document's blocks
    tree,                       \* the mounted chain of blocks, root first
    outcome,                    \* what the last step did (of a render: to which block)
    uncompiledValue, compiled,  \* compileStyleValue: argument and result
    styles, output,             \* getInlineStyles: argument and result
    settings, props, attributes, returned   \* addSaveProps / addEditProps

vars == <<heap, experimentalGlobalStyles, blockStyles, tree, outcome,
          uncompiledValue, compiled, styles, output,
          settings, props, attributes, returned>>

resolverVars == <<heap, experimentalGlobalStyles, blockStyles, tree, outcome>>
compileVars == <<uncompiledValue, compiled>>
inlineVars == <<styles, output>>
propsVars == <<settings, props, attributes, returned>>

\* Bounds of the model.
MaxDepth == 2       \* nesting of the mounted blocks under Spec
MaxEntries == 2     \* entries of __experimentalGlobalStyles
MaxChain == 3       \* nesting of the mounted blocks under SpecChain
MaxSegments == 3    \* path segments of a variable reference under SpecCompile

-----------------------------------------------------------------------------
(* Strings *)

startsWith(string, target) ==
    /\ Len(string) >= Len(target)
    /\ SubSeq(string, 1, Len(target)) = target

slice(string, start) == SubSeq(string, start + 1, Len(string))

\* A split that stops at the first separator.
splitOnce(string, separator) ==
    LET hits == {i \in 1..(Len(string) - Len(separator) + 1) :
                    SubSeq(string, i, i + Len(separator) - 1) = separator}
    IN  IF hits = {} THEN <<string>>
        ELSE LET i == CHOOSE j \in hits : \A k \in hits : j <= k
             IN  <<SubSeq(string, 1, i - 1),
                   SubSeq(string, i + Len(separator), Len(string))>>

RECURSIVE split(_, _)
split(string, separator) ==
    LET hits == {i \in 1..(Len(string) - Len(separator) + 1) :
                    SubSeq(string, i, i + Len(separator) - 1) = separator}
    IN  IF hits = {} THEN <<string>>
        ELSE LET i == CHOOSE j \in hits : \A k \in hits : j <= k
             IN  <<SubSeq(string, 1, i - 1)>>
                 \o split(SubSeq(string, i + Len(separator), Len(string)), separator)

RECURSIVE join(_, _)
join(array, separator) ==
    IF array = <<>> THEN ""
    ELSE IF Len(array) = 1 THEN array[1]
    ELSE array[1] \o separator \o join(Tail(array), separator)

-----------------------------------------------------------------------------
(* Objects in the heap *)

\* No object, where an address is expected.
undefined == 0

\* The values of a property: a string, undefined, or the address of an object.
Leaf(v) == [leaf |-> v]
undefinedValue == [undefined |-> TRUE]
Ref(a) == [ref |-> a]
isObject(value) == "ref" \in DOMAIN value

EmptyObject == [k \in {} |-> Leaf("")]

\* The address of the next object created: the lowest one not in use.
Fresh(h) ==
    CHOOSE a \in 1..(Cardinality(DOMAIN h) + 1) :
        a \notin DOMAIN h /\ \A b \in 1..(a - 1) : b \in DOMAIN h

NewObject(h, object) == (Fresh(h) :> object) @@ h

baseAssignValue(h, object, key, value) ==
    [h EXCEPT ![object] =
        [k \in DOMAIN h[object] \cup {key} |-> IF k = key THEN value ELSE h[object][k]]]

\* The objects reachable from a set of addresses.
RECURSIVE Reach(_, _)
Reach(h, addrs) ==
    LET next == addrs \cup {h[a][k].ref : <<a, k>> \in
                    {p \in addrs \X UNION {DOMAIN h[b] : b \in addrs} :
                        p[2] \in DOMAIN h[p[1]] /\ isObject(h[p[1]][p[2]])}}
    IN  IF next = addrs THEN addrs ELSE Reach(h, next)

\* A style layer read out of the heap as a value: group -> (key -> value).
RECURSIVE LayerValue(_, _)
LayerValue(h, a) ==
    IF a = undefined THEN EmptyObject
    ELSE [k \in DOMAIN h[a] |->
            IF isObject(h[a][k]) THEN LayerValue(h, h[a][k].ref) ELSE h[a][k]]

\* The heap with a style layer built in it; the layer's root is Fresh(h).
RECURSIVE AllocGroups(_, _, _, _)
AllocGroups(h, root, layer, groups) ==
    IF groups = {} THEN h
    ELSE LET g == CHOOSE x \in groups : TRUE
             a == Fresh(h)
             object == [k \in DOMAIN layer[g] |-> layer[g][k]]
         IN  AllocGroups(baseAssignValue(NewObject(h, object), root, g, Ref(a)),
                         root, layer, groups \ {g})

AllocLayer(h, layer) == AllocGroups(NewObject(h, EmptyObject), Fresh(h), layer, DOMAIN layer)

-----------------------------------------------------------------------------
(* compileStyleValue, getInlineStyles *)

VARIABLE_REFERENCE_PREFIX == "var:"
VARIABLE_PATH_SEPARATOR_TOKEN_ATTRIBUTE == "|"
VARIABLE_PATH_SEPARATOR_TOKEN_STYLE == "--"

\* lodash startsWith reads its first argument as a string: undefined as "".
toString(value) == IF value = undefinedValue THEN "" ELSE value.leaf

compileStyleValue(value) ==
    IF startsWith(toString(value), VARIABLE_REFERENCE_PREFIX)
    THEN LET variable ==
                join(split(slice(value.leaf, Len(VARIABLE_REFERENCE_PREFIX)),
                           VARIABLE_PATH_SEPARATOR_TOKEN_ATTRIBUTE),
                     VARIABLE_PATH_SEPARATOR_TOKEN_STYLE)
         IN  Leaf("var(--wp--" \o variable \o ")")
    ELSE value

\* A style object passed by value is group -> (key -> value); a missing
\* argument is undefinedValue.

has(object, path) == path[1] \in DOMAIN object /\ path[2] \in DOMAIN object[path[1]]
get(object, path) == object[path[1]][path[2]]

\* The mappings with the keys of the two colours mixed up.
mappingsMixedUp ==
    << <<"lineHeight", <<"typography", "lineHeight">> >>,
       <<"fontSize", <<"typography", "fontSize">> >>,
       <<"background", <<"color", "gradient">> >>,
       <<"backgroundColor", <<"color", "text">> >>,
       <<"color", <<"color", "background">> >>,
       <<"--wp--color--link", <<"color", "link">> >> >>

mappings ==
    << <<"lineHeight", <<"typography", "lineHeight">> >>,
       <<"fontSize", <<"typography", "fontSize">> >>,
       <<"background", <<"color", "gradient">> >>,
       <<"backgroundColor", <<"color", "background">> >>,
       <<"color", <<"color", "text">> >>,
       <<"--wp--color--link", <<"color", "link">> >> >>

getInlineStyles(stylesArg) ==
    LET layer == IF stylesArg = undefinedValue THEN EmptyObject ELSE stylesArg
        present == {n \in 1..Len(mappings) : has(layer, mappings[n][2])}
    IN  [styleKey \in {mappings[n][1] : n \in present} |->
            LET n == CHOOSE m \in present : mappings[m][1] = styleKey
            IN  compileStyleValue(get(layer, mappings[n][2]))]

-----------------------------------------------------------------------------
(* addSaveProps, addEditProps *)

COLOR_SUPPORT_KEY == "COLOR_SUPPORT_KEY"
LINE_HEIGHT_SUPPORT_KEY == "LINE_HEIGHT_SUPPORT_KEY"
FONT_SIZE_SUPPORT_KEY == "FONT_SIZE_SUPPORT_KEY"

styleSupportKeys == {COLOR_SUPPORT_KEY, LINE_HEIGHT_SUPPORT_KEY, FONT_SIZE_SUPPORT_KEY}

\* hasBlockSupport( blockType, key ): the key is among the block type's supports.
hasStyleSupport(blockType) == \E key \in styleSupportKeys : key \in blockType.supports

\* { ...a, ...b }
spread(a, b) == [k \in DOMAIN a \cup DOMAIN b |-> IF k \in DOMAIN b THEN b[k] ELSE a[k]]

\* addSaveProps with the two spreads in the other order.
addSavePropsComputedLast(propsArg, blockType, attrs) ==
    IF ~hasStyleSupport(blockType) THEN propsArg
    ELSE LET style == IF "style" \in DOMAIN attrs THEN attrs.style ELSE undefinedValue
             own == IF "style" \in DOMAIN propsArg THEN propsArg.style ELSE EmptyObject
         IN  [k \in DOMAIN propsArg \cup {"style"} |->
                IF k = "style" THEN spread(own, getInlineStyles(style)) ELSE propsArg[k]]

\* The props object after the call, which is also what the call returns.
addSaveProps(propsArg, blockType, attrs) ==
    IF ~hasStyleSupport(blockType) THEN propsArg
    ELSE LET style == IF "style" \in DOMAIN attrs THEN attrs.style ELSE undefinedValue
             own == IF "style" \in DOMAIN propsArg THEN propsArg.style ELSE EmptyObject
         IN  [k \in DOMAIN propsArg \cup {"style"} |->
                IF k = "style" THEN spread(getInlineStyles(style), own) ELSE propsArg[k]]

\* The block settings after the filter: getEditWrapperProps is "undefined",
\* "own" (the block's own function, which returns ownProps) or "wrapper" (the
\* closure of addEditProps, which keeps the previous one in existing).
addEditProps(blockSettings) ==
    IF ~hasStyleSupport(blockSettings) THEN blockSettings
    ELSE [blockSettings EXCEPT !.existing = blockSettings.getEditWrapperProps,
                               !.getEditWrapperProps = "wrapper"]

\* settings.getEditWrapperProps( attributes )
getEditWrapperProps(blockSettings, attrs) ==
    IF blockSettings.getEditWrapperProps = "wrapper"
    THEN addSaveProps(IF blockSettings.existing = "own" THEN blockSettings.ownProps
                      ELSE EmptyObject,
                      blockSettings, attrs)
    ELSE blockSettings.ownProps

-----------------------------------------------------------------------------
(* lodash merge *)

\* An assignMergeValue that writes undefined over an existing value too.
assignAlways(h, object, key, value) == baseAssignValue(h, object, key, value)

\* assignMergeValue: writes object[key] = value, unless the value is undefined
\* and the object has the key, or the object holds that value already.
assignMergeValue(h, object, key, value) ==
    IF \/ value # undefinedValue /\ ~(key \in DOMAIN h[object] /\ h[object][key] = value)
       \/ value = undefinedValue /\ key \notin DOMAIN h[object]
    THEN baseAssignValue(h, object, key, value)
    ELSE h

RECURSIVE baseMerge(_, _, _)
RECURSIVE baseMergeKeys(_, _, _, _)

\* A shallow assignment where baseMergeDeep belongs: the nested object of the
\* source replaces the destination's.
assignNestedObject(h, object, source, key) ==
    assignMergeValue(h, object, key, h[source][key])

\* baseMergeDeep picks the object the source's nested object is merged into:
\* the destination's own nested object when it has one, a new object otherwise.

baseMergeDeep(h, object, source, key) ==
    LET srcValue == h[source][key]
        hasObject == key \in DOMAIN h[object] /\ isObject(h[object][key])
        newValue == IF hasObject THEN h[object][key].ref ELSE Fresh(h)
        h1 == IF hasObject THEN h ELSE NewObject(h, EmptyObject)
        h2 == baseMerge(h1, newValue, srcValue.ref)
    IN  assignMergeValue(h2, object, key, Ref(newValue))

baseMergeKeys(h, object, source, keys) ==
    IF keys = {} THEN h
    ELSE LET key == CHOOSE k \in keys : TRUE
             srcValue == h[source][key]
             h1 == IF isObject(srcValue)
                   THEN baseMergeDeep(h, object, source, key)
                   ELSE assignMergeValue(h, object, key, srcValue)
         IN  baseMergeKeys(h1, object, source, keys \ {key})

baseMerge(h, object, source) ==
    IF object = source THEN h
    ELSE baseMergeKeys(h, object, source, DOMAIN h[source])

\* merge(object, ...sources): the heap after the call; a missing source is skipped.
RECURSIVE merge(_, _, _)
merge(h, object, sources) ==
    IF sources = <<>> THEN h
    ELSE merge(IF Head(sources) = undefined THEN h
               ELSE baseMerge(h, object, Head(sources)),
               object, Tail(sources))

-----------------------------------------------------------------------------
(* withBlockControls: the cascading style resolution *)

\* The predicate of 'core/heading/hN' compares the level attribute with N.
selectorMapping ==
    ("core/heading/h1" :> 1) @@ ("core/heading/h2" :> 2) @@ ("core/heading/h3" :> 3) @@
    ("core/heading/h4" :> 4) @@ ("core/heading/h5" :> 5) @@ ("core/heading/h6" :> 6)

\* selectorMapping is an object literal, so selectorMapping[ selector ] finds
\* the members of Object.prototype too. Each one called on selectorMapping with
\* the attributes object: the truth of what it returns, or "TypeError" when the
\* call throws (__defineGetter__ and __defineSetter__ get no function) or the
\* member is not a function (__proto__).
ObjectPrototype ==
    ("constructor" :> "true") @@ ("toString" :> "true") @@
    ("toLocaleString" :> "true") @@ ("valueOf" :> "true") @@
    ("hasOwnProperty" :> "false") @@ ("isPrototypeOf" :> "false") @@
    ("propertyIsEnumerable" :> "false") @@
    ("__lookupGetter__" :> "false") @@ ("__lookupSetter__" :> "false") @@
    ("__defineGetter__" :> "TypeError") @@ ("__defineSetter__" :> "TypeError") @@
    ("__proto__" :> "TypeError")

\* The condition of the reducer: "TypeError" when selectorMapping[selector] is
\* called and is not a function, or throws.
selectorMatches(selector, blockName, attrs) ==
    IF selector = blockName THEN "true"
    ELSE IF ~startsWith(selector, blockName) THEN "false"
    ELSE IF selector \in DOMAIN selectorMapping
         THEN IF attrs.level = selectorMapping[selector] THEN "true" ELSE "false"
    ELSE IF selector \in DOMAIN ObjectPrototype THEN ObjectPrototype[selector]
    ELSE "TypeError"

\* reduce( __experimentalGlobalStyles, ..., {} ) with the accumulator at acc.
RECURSIVE reduceGlobalStyles(_, _, _, _, _)
reduceGlobalStyles(h, acc, entries, blockName, attrs) ==
    IF entries = <<>> THEN [threw |-> FALSE, heap |-> h]
    ELSE LET matches == selectorMatches(Head(entries).selector, blockName, attrs)
         IN  IF matches = "TypeError" THEN [threw |-> TRUE, heap |-> h]
             ELSE reduceGlobalStyles(
                    IF matches = "true"
                    THEN merge(h, acc, <<Head(entries).styles>>)
                    ELSE h,
                    acc, Tail(entries), blockName, attrs)

\* __experimentalGlobalStyles?.global?.styles
globalRootStyles(entries) ==
    LET hits == {i \in 1..Len(entries) : entries[i].selector = "global"}
    IN  IF hits = {} THEN undefined ELSE entries[CHOOSE i \in hits : TRUE].styles

\* The final merge with the inherited and the block specific styles swapped.
mergeSourcesSwapped(global, context, blockSpecific, local) ==
    <<global, blockSpecific, context, local>>

\* The sources of the final merge, lowest priority first.
mergeSources(global, context, blockSpecific, local) ==
    <<global, context, blockSpecific, local>>

\* createContext( {} ): the default context is one shared empty object.
DefaultContext == 1

\* The final merge without its first argument {}: it writes into the root styles.
mergeIntoGlobal(h, global, context) == IF global = undefined THEN Fresh(h) ELSE global

\* The final merge writing into the inherited context.
mergeIntoContext(h, global, context) == context

\* The object the final merge writes into: a new empty object.
mergeTarget(h, global, context) == Fresh(h)

\* A block that reads the default context whatever its ancestors provide.
useDefaultContext(t) == DefaultContext

useContext(t) == IF t = <<>> THEN DefaultContext ELSE t[Len(t)].value

Roots(entries, pool, t) ==
    {DefaultContext} \cup {entries[i].styles : i \in 1..Len(entries)}
    \cup {pool[i] : i \in 1..Len(pool)} \cup {t[i].value : i \in 1..Len(t)}

Collect(h, roots) == [a \in Reach(h, roots) |-> h[a]]

\* What the document's blocks can be.
BlockNames == {"core/heading", "core/column", "core/head"}
Levels == {undefined, 2, 3}
BlockKinds ==
    {k \in BlockNames \X Levels :
        \/ k[1] = "core/heading" /\ k[2] # undefined
        \/ k[1] = "core/column" /\ k[2] = undefined
        \/ k[1] = "core/head" /\ k[2] = 2}

\* One render of a block below the deepest mounted block. An error thrown by
\* a render is not caught: the editor renders nothing after it.
Render(blockName, level, style) ==
    /\ outcome.did # "TypeError"
    /\ LET attrs == [level |-> level, style |-> style]
           acc == Fresh(heap)
           reduced == reduceGlobalStyles(NewObject(heap, EmptyObject), acc,
                                         experimentalGlobalStyles, blockName, attrs)
           global == globalRootStyles(experimentalGlobalStyles)
           context == useContext(tree)
           target == mergeTarget(reduced.heap, global, context)
           h1 == IF target \in DOMAIN reduced.heap THEN reduced.heap
                 ELSE NewObject(reduced.heap, EmptyObject)
           h2 == merge(h1, target, mergeSources(global, context, acc, attrs.style))
           node == [name |-> blockName, attributes |-> attrs,
                    blockSpecific |-> LayerValue(h2, acc), value |-> target]
       IN  IF reduced.threw
           THEN /\ outcome' = [did |-> "TypeError", name |-> blockName, attributes |-> attrs]
                /\ tree' = tree
                /\ heap' = Collect(reduced.heap,
                                   Roots(experimentalGlobalStyles, blockStyles, tree))
           ELSE /\ outcome' = [did |-> "rendered", name |-> blockName, attributes |-> attrs]
                /\ tree' = Append(tree, node)
                /\ heap' = Collect(h2, Roots(experimentalGlobalStyles, blockStyles, tree'))
    /\ UNCHANGED <<experimentalGlobalStyles, blockStyles>>
    /\ UNCHANGED <<compileVars, inlineVars, propsVars>>

\* The deepest mounted block is done; its parent goes on to the next child.
Unmount ==
    /\ outcome.did # "TypeError"
    /\ tree # <<>>
    /\ tree' = SubSeq(tree, 1, Len(tree) - 1)
    /\ outcome' = [did |-> "unmounted"]
    /\ heap' = Collect(heap, Roots(experimentalGlobalStyles, blockStyles, tree'))
    /\ UNCHANGED <<experimentalGlobalStyles, blockStyles>>
    /\ UNCHANGED <<compileVars, inlineVars, propsVars>>

\* The inputs of the model: style layers as values.
\* BlueUnsized is the style attribute of a block whose font size was set and
\* then cleared: the key stays, with the value undefined.
Red == [color |-> [text |-> Leaf("red")], typography |-> [lineHeight |-> Leaf("1.5")]]
GreenOnBlack == [color |-> [text |-> Leaf("green"), background |-> Leaf("black")]]
YellowSmall == [color |-> [text |-> Leaf("yellow")],
                typography |-> [fontSize |-> Leaf("var:preset|font-size|small")]]
Wide == [typography |-> [lineHeight |-> Leaf("2")]]
Purple == [color |-> [text |-> Leaf("purple")]]
BlueUnsized == [color |-> [text |-> Leaf("blue")],
                typography |-> [fontSize |-> undefinedValue]]

Selectors == {"global", "core/heading", "core/heading/h2", "core/columns"}
StylesOf(selector) ==
    CASE selector = "global" -> Red
      [] selector = "core/heading" -> GreenOnBlack
      [] selector = "core/heading/h2" -> YellowSmall
      [] OTHER -> Wide
LocalLayers == <<Purple, BlueUnsized>>

\* The key orders __experimentalGlobalStyles can have.
Configs ==
    {c \in UNION {[1..n -> Selectors] : n \in 0..MaxEntries} :
        \A i, j \in 1..Len(c) : c[i] = c[j] => i = j}

RECURSIVE AllocAll(_, _)
AllocAll(h, layers) ==
    IF layers = <<>> THEN h ELSE AllocAll(AllocLayer(h, Head(layers)), Tail(layers))

RECURSIVE RootsOfAll(_, _)
RootsOfAll(h, layers) ==
    IF layers = <<>> THEN <<>>
    ELSE <<Fresh(h)>> \o RootsOfAll(AllocLayer(h, Head(layers)), Tail(layers))

IdleResolver ==
    /\ heap = (DefaultContext :> EmptyObject)
    /\ experimentalGlobalStyles = <<>> /\ blockStyles = <<>>
    /\ tree = <<>> /\ outcome = [did |-> "init"]
IdleCompile == uncompiledValue = undefinedValue /\ compiled = undefinedValue
IdleInline == styles = EmptyObject /\ output = EmptyObject
IdleProps ==
    /\ settings = EmptyObject /\ props = EmptyObject
    /\ attributes = EmptyObject /\ returned = EmptyObject

InitResolver(configs) ==
    /\ \E c \in configs :
        LET h0 == (DefaultContext :> EmptyObject)
            h1 == AllocAll(h0, LocalLayers)
            layers == [i \in 1..Len(c) |-> StylesOf(c[i])]
            addrs == RootsOfAll(h1, layers)
        IN  /\ blockStyles = RootsOfAll(h0, LocalLayers)
            /\ experimentalGlobalStyles =
                    [i \in 1..Len(c) |-> [selector |-> c[i], styles |-> addrs[i]]]
            /\ heap = AllocAll(h1, layers)
    /\ tree = <<>>
    /\ outcome = [did |-> "init"]

StyleChoices == {undefined} \cup {blockStyles[i] : i \in 1..Len(blockStyles)}

Init == InitResolver(Configs) /\ IdleCompile /\ IdleInline /\ IdleProps

Next ==
    \/ \E kind \in BlockKinds : \E style \in StyleChoices :
            Len(tree) < MaxDepth /\ Render(kind[1], kind[2], style)
    \/ Unmount

Spec == Init /\ [][Next]_vars

\* A deeper chain of blocks under two settings.
ChainConfigs == {<<"global", "core/heading">>, <<"global", "core/heading/h2">>}
ChainKinds == {<<"core/heading", 2>>, <<"core/column", undefined>>}

InitChain == InitResolver(ChainConfigs) /\ IdleCompile /\ IdleInline /\ IdleProps

NextChain ==
    \/ \E kind \in ChainKinds : \E style \in StyleChoices :
            Len(tree) < MaxChain /\ Render(kind[1], kind[2], style)
    \/ Unmount

SpecChain == InitChain /\ [][NextChain]_vars

-----------------------------------------------------------------------------
(* compileStyleValue on its own *)

Segments == {"typography", "fontSize", "", "a--b"}
SegmentSeqs == UNION {[1..n -> Segments] : n \in 1..MaxSegments}

\* s1|s2|...|sn, built from the right.
RECURSIVE Glued(_, _)
Glued(segments, glue) ==
    IF Len(segments) = 1 THEN segments[1]
    ELSE Glued(SubSeq(segments, 1, Len(segments) - 1), glue) \o glue
         \o segments[Len(segments)]

Literals == {"", "red", "#fff", "1.5", "20px", "var", "var(--wp--x)", "a|b", "xvar:a|b", "Var:a"}
References == {"var:" \o Glued(segments, "|") : segments \in SegmentSeqs}

InitCompile ==
    /\ uncompiledValue \in {Leaf(v) : v \in Literals \cup References} \cup {undefinedValue}
    /\ compiled = undefinedValue
    /\ IdleResolver /\ IdleInline /\ IdleProps

CompileStyleValue ==
    /\ outcome = [did |-> "init"]
    /\ compiled' = compileStyleValue(uncompiledValue)
    /\ outcome' = [did |-> "compiled"]
    /\ UNCHANGED <<heap, experimentalGlobalStyles, blockStyles, tree>>
    /\ UNCHANGED <<uncompiledValue, inlineVars, propsVars>>

NextCompile == CompileStyleValue

SpecCompile == InitCompile /\ [][NextCompile]_vars

\* C7: a value that does not start with "var:" compiles to itself, and
\* "var:" followed by s1|s2|...|sn compiles to "var(--wp--s1--s2--...--sn)".
C7_Compile ==
    outcome = [did |-> "compiled"] =>
        /\ (\/ uncompiledValue = undefinedValue
            \/ Len(uncompiledValue.leaf) < 4
            \/ SubSeq(uncompiledValue.leaf, 1, 4) # "var:")
                => compiled = uncompiledValue
        /\ \A segments \in SegmentSeqs :
                uncompiledValue = Leaf("var:" \o Glued(segments, "|"))
                    => compiled = Leaf("var(--wp--" \o Glued(segments, "--") \o ")")

\* The reference of the specification's example, compiled.
C7_Witness ==
    /\ outcome = [did |-> "compiled"]
    /\ uncompiledValue = Leaf("var:typography|fontSize")
    /\ compiled = Leaf("var(--wp--typography--fontSize)")

-----------------------------------------------------------------------------
(* getInlineStyles on its own *)

StyleValues == {Leaf("20px"), Leaf("var:preset|color|primary"), undefinedValue}
GroupKeys(group) ==
    IF group = "typography" THEN {"lineHeight", "fontSize"}
    ELSE {"gradient", "background", "text", "link"}
GroupObjects(group) == UNION {[keys -> StyleValues] : keys \in SUBSET GroupKeys(group)}
StyleObjects ==
    UNION {{layer \in [groups -> GroupObjects("typography") \cup GroupObjects("color")] :
                \A g \in groups : layer[g] \in GroupObjects(g)} :
           groups \in SUBSET {"typography", "color"}}

InitInline ==
    /\ styles \in StyleObjects \cup {undefinedValue}
    /\ output = EmptyObject
    /\ IdleResolver /\ IdleCompile /\ IdleProps

GetInlineStyles ==
    /\ outcome = [did |-> "init"]
    /\ output' = getInlineStyles(styles)
    /\ outcome' = [did |-> "inlined"]
    /\ UNCHANGED <<heap, experimentalGlobalStyles, blockStyles, tree>>
    /\ UNCHANGED <<styles, compileVars, propsVars>>

NextInline == GetInlineStyles

SpecInline == InitInline /\ [][NextInline]_vars

\* The table of the claim: output key <- path in the style object.
SemanticPath ==
    ("lineHeight" :> <<"typography", "lineHeight">>) @@
    ("fontSize" :> <<"typography", "fontSize">>) @@
    ("background" :> <<"color", "gradient">>) @@
    ("backgroundColor" :> <<"color", "background">>) @@
    ("color" :> <<"color", "text">>) @@
    ("--wp--color--link" :> <<"color", "link">>)

\* C8: the output of getInlineStyles has output key k exactly when the style
\* object has k's path of the table, and then output[k] is the compiled value
\* at that path; an absent path gives no key, and there are no other keys.
C8_Inline ==
    outcome = [did |-> "inlined"] =>
        /\ DOMAIN output \subseteq DOMAIN SemanticPath
        /\ \A k \in DOMAIN SemanticPath :
            /\ k \in DOMAIN output <=>
                    (styles # undefinedValue /\ has(styles, SemanticPath[k]))
            /\ k \in DOMAIN output =>
                    output[k] = compileStyleValue(get(styles, SemanticPath[k]))

\* A sparse style object: both colours set, one of them a reference, no
\* typography, and an output of exactly these two keys.
C8_Witness ==
    /\ outcome = [did |-> "inlined"]
    /\ styles = [color |-> [text |-> Leaf("var:preset|color|primary"),
                            background |-> Leaf("20px")]]
    /\ output = ("color" :> Leaf("var(--wp--preset--color--primary)"))
                @@ ("backgroundColor" :> Leaf("20px"))

-----------------------------------------------------------------------------
(* addSaveProps and addEditProps on their own *)

SupportSets ==
    {{}, {"align"}, {COLOR_SUPPORT_KEY}, {LINE_HEIGHT_SUPPORT_KEY, FONT_SIZE_SUPPORT_KEY}}
PropsObjects ==
    {EmptyObject,
     [className |-> Leaf("wp-block")],
     [style |-> [color |-> Leaf("black")]],
     [className |-> Leaf("wp-block"),
      style |-> [color |-> Leaf("black"), margin |-> Leaf("0")]]}
AttributeObjects ==
    {EmptyObject,
     [style |-> [color |-> [text |-> Leaf("var:preset|color|primary"),
                            background |-> undefinedValue]]],
     [style |-> [color |-> [text |-> Leaf("red"), background |-> Leaf("white")],
                 typography |-> [fontSize |-> Leaf("20px")]]]}

InitProps ==
    /\ \E supports \in SupportSets : \E own \in {"undefined", "own"} :
       \E ownProps \in PropsObjects :
            settings = [supports |-> supports, getEditWrapperProps |-> own,
                        existing |-> "undefined", ownProps |-> ownProps]
    /\ props \in PropsObjects
    /\ attributes \in AttributeObjects
    /\ returned = EmptyObject
    /\ IdleResolver /\ IdleCompile /\ IdleInline

\* The filter blocks.registerBlockType, run once when the block is registered.
AddEditProps ==
    /\ outcome = [did |-> "init"]
    /\ settings' = addEditProps(settings)
    /\ outcome' = [did |-> "addEditProps"]
    /\ UNCHANGED <<heap, experimentalGlobalStyles, blockStyles, tree>>
    /\ UNCHANGED <<props, attributes, returned, compileVars, inlineVars>>

\* The filter blocks.getSaveContent.extraProps: props is changed in place.
AddSaveProps ==
    /\ outcome.did \in {"init", "addEditProps"}
    /\ props' = addSaveProps(props, settings, attributes)
    /\ returned' = props'
    /\ outcome' = [did |-> "addSaveProps"]
    /\ UNCHANGED <<heap, experimentalGlobalStyles, blockStyles, tree>>
    /\ UNCHANGED <<settings, attributes, compileVars, inlineVars>>

\* The editor asks the block type for the props of the edit wrapper.
GetEditWrapperProps ==
    /\ outcome.did \in {"init", "addEditProps"}
    /\ settings.getEditWrapperProps # "undefined"
    /\ returned' = getEditWrapperProps(settings, attributes)
    /\ outcome' = [did |-> "getEditWrapperProps"]
    /\ UNCHANGED <<heap, experimentalGlobalStyles, blockStyles, tree>>
    /\ UNCHANGED <<settings, props, attributes, compileVars, inlineVars>>

NextProps == AddEditProps \/ AddSaveProps \/ GetEditWrapperProps

SpecProps == InitProps /\ [][NextProps]_vars

StyleOf(p) == IF "style" \in DOMAIN p THEN p.style ELSE EmptyObject
Computed(attrs) ==
    getInlineStyles(IF "style" \in DOMAIN attrs THEN attrs.style ELSE undefinedValue)

\* What the claim says of addSaveProps: after is before with the computed
\* inline styles added under the keys before.style does not have.
Saved(before, blockType, attrs, after) ==
    IF blockType.supports \cap styleSupportKeys = {} THEN after = before
    ELSE /\ DOMAIN after = DOMAIN before \cup {"style"}
         /\ \A k \in DOMAIN before \ {"style"} : after[k] = before[k]
         /\ DOMAIN after.style = DOMAIN StyleOf(before) \cup DOMAIN Computed(attrs)
         /\ \A k \in DOMAIN StyleOf(before) : after.style[k] = StyleOf(before)[k]
         /\ \A k \in DOMAIN Computed(attrs) \ DOMAIN StyleOf(before) :
                after.style[k] = Computed(attrs)[k]

\* C10: addSaveProps returns props unchanged for a block type without style
\* support, and otherwise keeps every entry of props.style and adds the
\* computed inline styles under the other keys only; the wrapper installed by
\* addEditProps returns addSaveProps of what the block's previous
\* getEditWrapperProps returns, or of empty props when there was none.
C10_Props ==
    [][/\ outcome' = [did |-> "addSaveProps"] => Saved(props, settings, attributes, returned')
       /\ (outcome' = [did |-> "getEditWrapperProps"] /\ settings.getEditWrapperProps = "wrapper") =>
            Saved(IF settings.existing = "own" THEN settings.ownProps ELSE EmptyObject,
                  settings, attributes, returned')
       /\ outcome' = [did |-> "addEditProps"] =>
            IF settings.supports \cap styleSupportKeys = {} THEN settings' = settings
            ELSE /\ settings'.getEditWrapperProps = "wrapper"
                 /\ settings'.existing = settings.getEditWrapperProps]_vars

\* The wrapper of a block type with colour support, called for a block whose
\* computed colour differs from the one the block's own props hold: the
\* block's own colour is returned, next to the computed background.
C10_Witness ==
    /\ outcome = [did |-> "getEditWrapperProps"]
    /\ settings.getEditWrapperProps = "wrapper" /\ settings.existing = "own"
    /\ StyleOf(settings.ownProps) = [color |-> Leaf("black")]
    /\ Computed(attributes) =
            ("color" :> Leaf("red")) @@ ("backgroundColor" :> Leaf("white"))
            @@ ("fontSize" :> Leaf("20px"))
    /\ returned.style =
            ("color" :> Leaf("black")) @@ ("backgroundColor" :> Leaf("white"))
            @@ ("fontSize" :> Leaf("20px"))

-----------------------------------------------------------------------------
(* The resolution of the mounted blocks, read as values *)

Paths ==
    {<<"typography", "lineHeight">>, <<"typography", "fontSize">>,
     <<"color", "gradient">>, <<"color", "background">>,
     <<"color", "text">>, <<"color", "link">>}

Nodes == 1..Len(tree)
Local(i) == LayerValue(heap, tree[i].attributes.style)
Specific(i) == tree[i].blockSpecific
Context(i) == LayerValue(heap, IF i = 1 THEN DefaultContext ELSE tree[i - 1].value)
Global == LayerValue(heap, globalRootStyles(experimentalGlobalStyles))
Result(i) == LayerValue(heap, tree[i].value)

\* The four layers of block i, highest precedence first.
Layers(i) == <<Local(i), Specific(i), Context(i), Global>>
Having(i, p) == {n \in 1..4 : has(Layers(i)[n], p)}
Lowest(S) == CHOOSE n \in S : \A m \in S : n <= m
Highest(S) == CHOOSE n \in S : \A m \in S : n >= m

\* C1: at every leaf path, the resolved style of a block holds the value of the
\* highest-precedence layer that has the path: local, then block specific,
\* then the ancestor context, then the global root styles.
C1_Precedence ==
    \A i \in Nodes : \A p \in Paths :
        Having(i, p) # {} =>
            /\ has(Result(i), p)
            /\ get(Result(i), p) = get(Layers(i)[Lowest(Having(i, p))], p)

\* The layers of block i that hold a value other than undefined at a path.
Defining(i, p) == {n \in Having(i, p) : get(Layers(i)[n], p) # undefinedValue}

\* C1, amended: at every leaf path, the resolved style of a block holds the
\* value of the highest-precedence layer whose value at the path is not
\* undefined (local, then block specific, then the ancestor context, then the
\* global root styles); when the layers that have the path all hold undefined,
\* the resolved style has the path, with undefined.
C1_DefinedPrecedence ==
    \A i \in Nodes : \A p \in Paths :
        /\ Defining(i, p) # {} =>
            /\ has(Result(i), p)
            /\ get(Result(i), p) = get(Layers(i)[Lowest(Defining(i, p))], p)
        /\ (Having(i, p) # {} /\ Defining(i, p) = {}) =>
            /\ has(Result(i), p)
            /\ get(Result(i), p) = undefinedValue

\* A block whose four layers all set one path, to four different values, below
\* a block whose local style holds undefined at a path that its block specific
\* layer sets.
C1_Witness ==
    /\ \E i \in Nodes : \E p \in Paths :
        /\ Defining(i, p) = 1..4
        /\ \A m, n \in 1..4 : m # n => get(Layers(i)[m], p) # get(Layers(i)[n], p)
        /\ get(Result(i), p) = get(Local(i), p)
    /\ \E i \in Nodes : \E p \in Paths :
        /\ 1 \in Having(i, p) /\ Lowest(Defining(i, p) \cup {5}) = 2
        /\ get(Result(i), p) = get(Specific(i), p)

\* C2: the resolution never raises: no render ends in a TypeError.
C2_Total == outcome.did # "TypeError"

\* The entries the claim lets contribute to a block: the block's own selector,
\* and the variants "<block name>/<variant>" whose predicate holds.
IsVariantOf(selector, blockName) ==
    startsWith(selector, blockName \o "/") /\ selector \in DOMAIN selectorMapping
Contributing(i) ==
    {n \in 1..Len(experimentalGlobalStyles) :
        LET selector == experimentalGlobalStyles[n].selector
        IN  \/ selector = tree[i].name
            \/ /\ IsVariantOf(selector, tree[i].name)
               /\ tree[i].attributes.level = selectorMapping[selector]}
EntryLayer(n) == LayerValue(heap, experimentalGlobalStyles[n].styles)

\* C3: the block specific layer of a block is made of exactly the entries whose
\* selector is the block's type, or a variant of that type whose predicate
\* holds: it has a path when one of these entries has it, with the value of
\* the last of them, and entries of other block types add nothing.
C3_Matching ==
    \A i \in Nodes : \A p \in Paths :
        LET from == {n \in Contributing(i) : has(EntryLayer(n), p)}
        IN  /\ has(Specific(i), p) <=> from # {}
            /\ from # {} => get(Specific(i), p) = get(EntryLayer(Highest(from)), p)

\* C4: the merge drops nothing: a path that any layer has is in the resolved
\* style, and a path that one layer alone has keeps that layer's value.
C4_NothingDropped ==
    \A i \in Nodes : \A p \in Paths :
        /\ Having(i, p) # {} => has(Result(i), p)
        /\ \A n \in 1..4 : Having(i, p) = {n} => get(Result(i), p) = get(Layers(i)[n], p)

\* A path that one layer alone has, next to a sibling key of the same group
\* that another layer alone has.
C4_Witness ==
    \E i \in Nodes : \E p, q \in Paths : \E m, n \in 1..4 :
        /\ p[1] = q[1] /\ p[2] # q[2] /\ m # n
        /\ Having(i, p) = {m} /\ Having(i, q) = {n}
        /\ get(Result(i), p) = get(Layers(i)[m], p)
        /\ get(Result(i), q) = get(Layers(i)[n], q)

\* The objects a render is given: the default context, the styles of the
\* settings, the style attributes of the blocks, the values of the other blocks.
InputsOf(i, entries, pool, t) ==
    {DefaultContext} \cup {entries[n].styles : n \in 1..Len(entries)}
    \cup {pool[n] : n \in 1..Len(pool)} \cup {t[n].value : n \in 1..Len(t) \ {i}}

Untouched ==
    \A a \in Reach(heap, Roots(experimentalGlobalStyles, blockStyles, tree)
                         \cap Roots(experimentalGlobalStyles', blockStyles', tree')) :
        a \in DOMAIN heap' /\ heap'[a] = heap[a]

Unshared ==
    \A i \in Nodes :
        Reach(heap, {tree[i].value})
        \cap Reach(heap, InputsOf(i, experimentalGlobalStyles, blockStyles, tree)) = {}

\* C5: a render changes none of the objects it is given (the root styles, the
\* styles of the selector entries, the ancestor context, the style attributes)
\* and its result shares no object with them or with another block's result.
C5_Pure == [][Untouched /\ Unshared']_vars

\* A second render below a first one, with root styles, block specific styles
\* and local styles all taking part.
C5_Witness ==
    /\ Len(tree) = 2 /\ outcome.did = "rendered"
    /\ Global # EmptyObject
    /\ \A i \in Nodes : Local(i) # EmptyObject /\ Specific(i) # EmptyObject
    /\ Result(1) # Result(2)

Owns(i, p) == has(Local(i), p) \/ has(Specific(i), p)
OwnValue(i, p) == IF has(Local(i), p) THEN get(Local(i), p) ELSE get(Specific(i), p)
Setting(i, p) == {j \in 1..(i - 1) : Owns(j, p)}

\* C6: along a chain of nested blocks, a path that a block does not set itself
\* (locally or block specifically) and that some ancestor sets reaches the
\* block with the value of the nearest ancestor that sets it.
C6_NearestAncestor ==
    \A i \in Nodes : \A p \in Paths :
        (~Owns(i, p) /\ Setting(i, p) # {}) =>
            /\ has(Result(i), p)
            /\ get(Result(i), p) = OwnValue(Highest(Setting(i, p)), p)

Defined(layer, p) == has(layer, p) /\ get(layer, p) # undefinedValue
Sets(i, p) == Defined(Local(i), p) \/ Defined(Specific(i), p)
SetValue(i, p) == IF Defined(Local(i), p) THEN get(Local(i), p) ELSE get(Specific(i), p)
SettingDefined(i, p) == {j \in 1..(i - 1) : Sets(j, p)}

\* C6, amended: along a chain of nested blocks, a path to which a block gives
\* no value other than undefined itself (locally or block specifically) and
\* to which some ancestor gives one reaches the block with the value of the
\* nearest ancestor that gives it a value other than undefined.
C6_NearestDefining ==
    \A i \in Nodes : \A p \in Paths :
        (~Sets(i, p) /\ SettingDefined(i, p) # {}) =>
            /\ has(Result(i), p)
            /\ get(Result(i), p) = SetValue(Highest(SettingDefined(i, p)), p)

\* A block two levels down whose two ancestors set one path to different
\* values, and which gets the nearer one's; and a path that its parent holds
\* with undefined, which it gets from its grandparent.
C6_Witness ==
    /\ Len(tree) = 3
    /\ \E p \in Paths :
        /\ Sets(1, p) /\ Sets(2, p) /\ ~Sets(3, p)
        /\ SetValue(1, p) # SetValue(2, p)
        /\ has(Global, p)
        /\ get(Result(3), p) = SetValue(2, p)
    /\ \E p \in Paths :
        /\ Sets(1, p) /\ Owns(2, p) /\ ~Sets(2, p) /\ ~Owns(3, p)
        /\ get(Result(3), p) = SetValue(1, p)

\* C9: with no settings at all and an empty ancestor context, the resolved
\* style of a block is its local style.
C9_Idempotent ==
    \A i \in Nodes :
        (experimentalGlobalStyles = <<>> /\ (i = 1 \/ Context(i) = EmptyObject)) =>
            Result(i) = Local(i)

\* A root block with a local style of two groups, resolved with no settings.
C9_Witness ==
    /\ experimentalGlobalStyles = <<>> /\ Len(tree) = 1
    /\ Local(1) = BlueUnsized /\ Result(1) = BlueUnsized
    /\ outcome.did = "rendered"

====
